---- MODULE Spec2Model ----
(***************************************************************************)
(* Model of programming-fun/main.cpp: the asset-folder search              *)
(* (try_get_asset_path, get_base_path), the construction and destruction   *)
(* of Application and Demo, the frame loop of main and, for the web build, *)
(* main_loop and setWindowSize.                                            *)
(*                                                                         *)
(* A path is the sequence of its components below the filesystem root, so  *)
(* the root is <<>>; ".." is kept as a component until something resolves  *)
(* it.  A resource is named by the handle or library state that owns it.   *)
(***************************************************************************)
EXTENDS Integers, Sequences, FiniteSets, TLC

\* ---------------------------------------------------------------- bounds

\* Deepest directory of the modelled filesystem (the root has depth 0).
MaxDepth == 2
\* Longest path, in components, that the operating system resolves
\* (PATH_MAX scaled down); a longer one makes status() fail.
PathMax == 8
\* How often another process may create or remove an "assets" directory
\* while the program runs.
MaxFsChanges == 1
\* Frames the loop is followed for.
MaxFrames == 2
\* Events that can be pending when a frame polls.
MaxEvents == 1
\* Calls of setWindowSize the page makes.
MaxResizeCalls == 2

\* ----------------------------------------------------------------- paths

Names == {"a"}

RECURSIVE DirsOfDepth(_)
DirsOfDepth(n) ==
    IF n = 0 THEN {<<>>}
    ELSE {Append(d, x) : d \in DirsOfDepth(n - 1), x \in Names}

\* Every directory of the filesystem other than the "assets" directories.
Dirs == UNION {DirsOfDepth(n) : n \in 0..MaxDepth}

Front(s) == SubSeq(s, 1, Len(s) - 1)

\* What the operating system does with ".." when it resolves a path: the
\* parent of the root is the root.
RECURSIVE Resolve(_, _)
Resolve(acc, rest) ==
    IF rest = <<>> THEN acc
    ELSE IF Head(rest) = ".."
         THEN Resolve(IF acc = <<>> THEN <<>> ELSE Front(acc), Tail(rest))
         ELSE Resolve(Append(acc, Head(rest)), Tail(rest))

Normalize(p) == Resolve(<<>>, p)

VARIABLES
    build,          \* "windows" (MSVC) or "emscripten" (the web build)
    env,            \* the filesystem as Demo::Setup finds it: [tracked, cwd,
                    \* exeDir, assetsAt, changes], with cwd what
                    \* current_path() returns, exeDir what SDL_GetBasePath()
                    \* returns and assetsAt the directories that have a child
                    \* directory "assets"; read first by Setup's first
                    \* get_base_path call and by nothing once Setup has
                    \* returned, which is when the model stops tracking it
    pc,             \* the statement of main that runs next
    thrown,         \* the exception in flight or caught, "none" if none
    stderr,         \* what was written to std::cerr, in order
    exitCode,       \* main's return value as text, "none" before it returns
    ptr_window, gl_context, al_device, al_context,  \* TRUE: not nullptr
    example_image,  \* [handle, loaded]
    alBufferHandles, alSourceHandles,  \* TRUE: generated names
    bufferData,     \* per buffer, whether alBufferData gave it data
    wavSpec,        \* Setup's wavSpec and the extension flag: [set, channels,
                    \* format, floatExt]; set is FALSE outside its scope
    format,         \* Setup's local format, "none" outside its scope
    sourceBuffer,   \* per source, the buffer bound to it, 0 if none
    created,        \* the resources created, in order
    released,       \* the release calls made, in order: [res, live]
    is_done,
    pending,        \* the events SDL_PollEvent has yet to return
    frames,         \* Update calls completed
    gWindowWidth, gWindowHeight, gNeedResize,
    windowSize,     \* the size SDL last gave the window
    resizeCalls,    \* setWindowSize calls so far
    forceResizes,   \* ForceResize calls so far, as <<width, height>>
    assets_folder,  \* get_base_path's static: [init, path]
    searches,       \* the try_get_asset_path calls made while Setup runs:
                    \* [call, start, assetsAt, result], call the number of
                    \* the get_base_path call that made it
    baseCalls       \* what each get_base_path call returned, in order

envVars == <<build, env>>
mainVars == <<pc, thrown, stderr, exitCode>>
handleVars == <<ptr_window, gl_context, al_device, al_context>>
demoVars == <<example_image, alBufferHandles, alSourceHandles, bufferData,
              wavSpec, format, sourceBuffer>>
logVars == <<created, released>>
loopVars == <<is_done, pending, frames>>
sizeVars == <<gWindowWidth, gWindowHeight, gNeedResize, windowSize,
              resizeCalls, forceResizes>>
assetVars == <<assets_folder, searches, baseCalls>>

vars == <<envVars, mainVars, handleVars, demoVars, logVars, loopVars,
          sizeVars, assetVars>>

\* ---------------------------------------------------- try_get_asset_path

\* std::filesystem::absolute of an absolute path.  MSVC's calls
\* GetFullPathNameW, which resolves ".."; libc++'s returns the path as it is.
absolute(p) == IF build = "windows" THEN Normalize(p) ELSE p

\* std::filesystem::is_directory, for a path the system can resolve, in a
\* filesystem where the directories in assetsAt have a child "assets".
is_directory(p, assetsAt) ==
    LET r == Normalize(p)
    IN  \/ r \in Dirs
        \/ /\ r # <<>>
           /\ r[Len(r)] = "assets"
           /\ Front(r) \in assetsAt

\* status() fails with ENAMETOOLONG, which is_directory reports by throwing
\* std::filesystem::filesystem_error.
TooLong(p) == Len(p) > PathMax

\* The do-while loop of try_get_asset_path from its current p: the result
\* and the directories p it looked in.
RECURSIVE Walk(_, _, _, _)
Walk(p, root, visited, assetsAt) ==
    LET assets_folder_ == absolute(p \o <<"assets">>)
        next == absolute(p \o <<"..">>)
    IN  IF TooLong(assets_folder_)
        THEN [kind |-> "threw", path |-> <<>>, visited |-> visited]
        ELSE IF is_directory(assets_folder_, assetsAt)
        THEN [kind |-> "found", path |-> assets_folder_,
              visited |-> Append(visited, p)]
        ELSE IF absolute(next) # root
        THEN Walk(next, root, Append(visited, p), assetsAt)
        ELSE [kind |-> "empty", path |-> <<>>,
              visited |-> Append(visited, p)]

\* A search that returns the directory the "assets" folder was found in.
try_get_asset_path_parent(starting_directory, assetsAt) ==
    LET r == Walk(starting_directory, <<>>, <<>>, assetsAt)
    IN  IF r.kind = "found"
        THEN [r EXCEPT !.path = Front(Normalize(r.path))]
        ELSE r

\* root_path() of an absolute path is the root.
try_get_asset_path(starting_directory, assetsAt) ==
    Walk(starting_directory, <<>>, <<>>, assetsAt)

\* --------------------------------------------------------- get_base_path

\* An initializer that returns empty-handed when the search from the
\* working directory returns empty, without the search from the
\* executable's directory.
InitAssetsFolder_noFallback ==
    LET first == try_get_asset_path(env.cwd, env.assetsAt)
        s1 == [call |-> Len(baseCalls) + 1, start |-> env.cwd,
               assetsAt |-> env.assetsAt, result |-> first]
    IN  IF first.kind = "found"
        THEN [thrown |-> "none", value |-> first.path, made |-> <<s1>>]
        ELSE IF first.kind = "threw"
        THEN [thrown |-> "filesystem_error", value |-> <<>>, made |-> <<s1>>]
        ELSE [thrown |-> "AssetRootNotFound", value |-> <<>>,
              made |-> <<s1>>]

\* The initializer of the static assets_folder (the lambda): the value it
\* returns or the exception it throws, and the searches it made.
InitAssetsFolder ==
    LET first == try_get_asset_path(env.cwd, env.assetsAt)
        second == try_get_asset_path(env.exeDir, env.assetsAt)
        call == Len(baseCalls) + 1
        s1 == [call |-> call, start |-> env.cwd, assetsAt |-> env.assetsAt,
               result |-> first]
        s2 == [call |-> call, start |-> env.exeDir,
               assetsAt |-> env.assetsAt, result |-> second]
    IN  IF first.kind = "found"
        THEN [thrown |-> "none", value |-> first.path, made |-> <<s1>>]
        ELSE IF first.kind = "threw"
        THEN [thrown |-> "filesystem_error", value |-> <<>>, made |-> <<s1>>]
        ELSE IF second.kind = "found"
        THEN [thrown |-> "none", value |-> second.path, made |-> <<s1, s2>>]
        ELSE IF second.kind = "threw"
        THEN [thrown |-> "filesystem_error", value |-> <<>>,
              made |-> <<s1, s2>>]
        ELSE [thrown |-> "AssetRootNotFound", value |-> <<>>,
              made |-> <<s1, s2>>]

\* A get_base_path that runs the initializer on every call.
get_base_path_uncached == InitAssetsFolder

\* get_base_path: the static is initialized by the first call that does not
\* throw, and returned as it is by every later call.
get_base_path ==
    IF assets_folder.init
    THEN [thrown |-> "none", value |-> assets_folder.path, made |-> <<>>]
    ELSE InitAssetsFolder

\* ------------------------------------------------------ get_openal_format

Channels == {1, 2, 6}
SampleFormats == {"AUDIO_U8", "AUDIO_S16SYS", "AUDIO_F32SYS", "AUDIO_S32SYS"}

\* A mapping that takes every clip of more than one channel for stereo.
get_openal_format_anyStereo(channels, sampleFormat, floatExt) ==
    IF channels = 1 /\ sampleFormat = "AUDIO_U8" THEN "AL_FORMAT_MONO8"
    ELSE IF channels = 1 /\ sampleFormat = "AUDIO_S16SYS"
    THEN "AL_FORMAT_MONO16"
    ELSE IF sampleFormat = "AUDIO_U8" THEN "AL_FORMAT_STEREO8"
    ELSE IF sampleFormat = "AUDIO_S16SYS" THEN "AL_FORMAT_STEREO16"
    ELSE IF channels = 1 /\ sampleFormat = "AUDIO_F32SYS"
    THEN IF floatExt THEN "AL_FORMAT_MONO_FLOAT32" ELSE "AL_NONE"
    ELSE IF sampleFormat = "AUDIO_F32SYS"
    THEN IF floatExt THEN "AL_FORMAT_STEREO_FLOAT32" ELSE "AL_NONE"
    ELSE "AL_NONE"

\* floatExt: what alIsExtensionPresent("AL_EXT_FLOAT32") returns.
get_openal_format(channels, sampleFormat, floatExt) ==
    IF channels = 1 /\ sampleFormat = "AUDIO_U8" THEN "AL_FORMAT_MONO8"
    ELSE IF channels = 1 /\ sampleFormat = "AUDIO_S16SYS" THEN "AL_FORMAT_MONO16"
    ELSE IF channels = 2 /\ sampleFormat = "AUDIO_U8" THEN "AL_FORMAT_STEREO8"
    ELSE IF channels = 2 /\ sampleFormat = "AUDIO_S16SYS" THEN "AL_FORMAT_STEREO16"
    ELSE IF channels = 1 /\ sampleFormat = "AUDIO_F32SYS"
    THEN IF floatExt THEN "AL_FORMAT_MONO_FLOAT32" ELSE "AL_NONE"
    ELSE IF channels = 2 /\ sampleFormat = "AUDIO_F32SYS"
    THEN IF floatExt THEN "AL_FORMAT_STEREO_FLOAT32" ELSE "AL_NONE"
    ELSE "AL_NONE"

\* ------------------------------------------------------------------ Init

\* Application's default title (the one main passes).
title == "Programming Fun App"

NoSpec == [set |-> FALSE, channels |-> 0, format |-> "none",
           floatExt |-> FALSE]

NoEnv == [tracked |-> FALSE, cwd |-> <<>>, exeDir |-> <<>>, assetsAt |-> {},
          changes |-> 0]

Init ==
    /\ build \in {"windows", "emscripten"}
    /\ env \in [tracked : {TRUE}, cwd : Dirs, exeDir : Dirs,
                assetsAt : SUBSET Dirs, changes : {0}]
    /\ pc = "setupSDLWindow"
    /\ thrown = "none"
    /\ stderr = <<>>
    /\ exitCode = "none"
    /\ ptr_window = FALSE /\ gl_context = FALSE
    /\ al_device = FALSE /\ al_context = FALSE
    /\ example_image = [handle |-> 0, loaded |-> FALSE]
    /\ alBufferHandles = FALSE /\ alSourceHandles = FALSE
    /\ bufferData = <<FALSE, FALSE>>
    /\ wavSpec = NoSpec
    /\ format = "none"
    /\ sourceBuffer = <<0, 0>>
    /\ created = <<>>
    /\ released = <<>>
    /\ is_done = FALSE
    /\ pending = <<>>
    /\ frames = 0
    /\ gWindowWidth = 640 /\ gWindowHeight = 480
    /\ gNeedResize = FALSE
    /\ windowSize = <<0, 0>>
    /\ resizeCalls = 0
    /\ forceResizes = <<>>
    /\ assets_folder = [init |-> FALSE, path |-> <<>>]
    /\ searches = <<>>
    /\ baseCalls = <<>>

\* ------------------------------------------------------------ exceptions

\* throw_error_message: the message goes to std::cerr, then it is thrown.
\* The constructor is left at once, so ~Application does not run.
throw_error_message(msg) ==
    /\ stderr' = Append(stderr, msg)
    /\ thrown' = msg
    /\ pc' = "catch"

\* A throw that prints nothing (get_base_path's, the filesystem library's).
Throw(e) ==
    /\ stderr' = stderr
    /\ thrown' = e
    /\ pc' = "catch"

\* A handler that prints nothing and lets main return 0.
Catch_returnsZero ==
    /\ pc = "catch"
    /\ exitCode' = "0"
    /\ pc' = "exit"
    /\ UNCHANGED <<envVars, thrown, stderr, handleVars, demoVars, logVars,
                   loopVars, sizeVars, assetVars>>

\* main's handler: e.what() goes to std::cerr and main returns -1.
Catch ==
    /\ pc = "catch"
    /\ stderr' = Append(stderr, thrown)
    /\ exitCode' = "-1"
    /\ pc' = "exit"
    /\ UNCHANGED <<envVars, thrown, handleVars, demoVars, logVars, loopVars,
                   sizeVars, assetVars>>

\* ----------------------------------------------- Application::Application

\* Lines 170-172: the title check and setupSDLWindow.
Ctor_setupSDLWindow ==
    /\ pc = "setupSDLWindow"
    /\ \E sdlInitOk \in BOOLEAN, windowOk \in BOOLEAN :
         IF title = ""
         THEN /\ throw_error_message("App title shouldn't be empty")
              /\ UNCHANGED <<ptr_window, created, windowSize>>
         ELSE IF ~sdlInitOk
         THEN /\ throw_error_message("Failed to init SDK error")
              /\ UNCHANGED <<ptr_window, created, windowSize>>
         ELSE IF ~windowOk
         THEN /\ throw_error_message("Failed to create window")
              /\ created' = Append(created, "SDL")
              /\ UNCHANGED <<ptr_window, windowSize>>
         ELSE /\ created' = created \o <<"SDL", "window">>
              /\ ptr_window' = TRUE
              /\ windowSize' = <<gWindowWidth, gWindowHeight>>
              /\ pc' = "setupOpenGL"
              /\ UNCHANGED <<thrown, stderr>>
    /\ UNCHANGED <<envVars, exitCode, gl_context, al_device, al_context,
                   demoVars, released, loopVars, gWindowWidth, gWindowHeight,
                   gNeedResize, resizeCalls, forceResizes, assetVars>>

\* Lines 173-174: setupOpenGL, then SDL_GetWindowSize into the globals.
Ctor_setupOpenGL ==
    /\ pc = "setupOpenGL"
    /\ \E contextOk \in BOOLEAN, glewOk \in BOOLEAN :
         IF ~contextOk
         THEN /\ throw_error_message("Failed to create opengl context")
              /\ UNCHANGED <<gl_context, created, gWindowWidth, gWindowHeight>>
         ELSE IF ~glewOk
         THEN /\ throw_error_message("Unable to initialize GLEW")
              /\ gl_context' = TRUE
              /\ created' = Append(created, "gl_context")
              /\ UNCHANGED <<gWindowWidth, gWindowHeight>>
         ELSE /\ gl_context' = TRUE
              /\ created' = Append(created, "gl_context")
              /\ gWindowWidth' = windowSize[1]
              /\ gWindowHeight' = windowSize[2]
              /\ pc' = "setupImGui"
              /\ UNCHANGED <<thrown, stderr>>
    /\ UNCHANGED <<envVars, exitCode, ptr_window, al_device, al_context,
                   demoVars, released, loopVars, gNeedResize, windowSize,
                   resizeCalls, forceResizes, assetVars>>

\* Line 175: setupImGui; none of its calls is checked for failure.
Ctor_setupImGui ==
    /\ pc = "setupImGui"
    /\ created' = created \o <<"ImGuiContext", "ImGuiSDL2", "ImGuiOpenGL3">>
    /\ pc' = "alcOpenDevice"
    /\ UNCHANGED <<envVars, thrown, stderr, exitCode, handleVars, demoVars,
                   released, loopVars, sizeVars, assetVars>>

\* A constructor that creates the audio context before the device.
Ctor_openAL_contextFirst ==
    /\ pc = "alcOpenDevice"
    /\ \E deviceOk \in BOOLEAN, contextOk \in BOOLEAN :
         /\ al_device' = deviceOk
         /\ al_context' = (deviceOk /\ contextOk)
         /\ created' = created
                \o (IF deviceOk /\ contextOk THEN <<"al_context">> ELSE <<>>)
                \o (IF deviceOk THEN <<"al_device">> ELSE <<>>)
    /\ pc' = "Setup_image"
    /\ UNCHANGED <<envVars, thrown, stderr, exitCode, ptr_window, gl_context,
                   demoVars, released, loopVars, sizeVars, assetVars>>

\* Lines 176-178: the device and the context are opened and made current;
\* a nullptr from either call is not tested.
Ctor_openAL ==
    /\ pc = "alcOpenDevice"
    /\ \E deviceOk \in BOOLEAN, contextOk \in BOOLEAN :
         /\ al_device' = deviceOk
         /\ al_context' = (deviceOk /\ contextOk)
         /\ created' = created
                \o (IF deviceOk THEN <<"al_device">> ELSE <<>>)
                \o (IF deviceOk /\ contextOk THEN <<"al_context">> ELSE <<>>)
    /\ pc' = "Setup_image"
    /\ UNCHANGED <<envVars, thrown, stderr, exitCode, ptr_window, gl_context,
                   demoVars, released, loopVars, sizeVars, assetVars>>

\* ------------------------------------------------------------ Demo::Setup

\* What a call of get_base_path that gave b leaves behind.
CallBasePath(b) ==
    /\ assets_folder' = IF b.thrown = "none"
                        THEN [init |-> TRUE, path |-> b.value]
                        ELSE assets_folder
    /\ searches' = searches \o b.made
    /\ baseCalls' = IF b.thrown = "none"
                    THEN Append(baseCalls, b.value)
                    ELSE baseCalls

\* LoadTextureFromFile: decoded is whether stbi_load returned data.  On
\* failure the out parameters are left as they were.
LoadTextureFromFile(decoded) ==
    IF decoded
    THEN [ok |-> TRUE, handle |-> 1]
    ELSE [ok |-> FALSE, handle |-> example_image.handle]

\* A Setup that treats the image like the audio clips: a file that does
\* not decode is thrown.
Setup_image_fatal ==
    /\ pc = "Setup_image"
    /\ LET b == get_base_path
       IN  /\ CallBasePath(b)
           /\ IF b.thrown # "none"
              THEN /\ Throw(b.thrown)
                   /\ UNCHANGED <<example_image, created>>
              ELSE \E decoded \in BOOLEAN :
                     IF ~decoded
                     THEN /\ throw_error_message("Failed to load image file")
                          /\ UNCHANGED <<example_image, created>>
                     ELSE /\ example_image' = [handle |-> 1, loaded |-> TRUE]
                          /\ created' = Append(created, "texture")
                          /\ pc' = "Setup_wav"
                          /\ UNCHANGED <<thrown, stderr>>
    /\ UNCHANGED <<envVars, exitCode, handleVars, alBufferHandles,
                   alSourceHandles, bufferData, wavSpec, format,
                   sourceBuffer, released, loopVars, sizeVars>>

\* Lines 438-440: the viewport, then the image under get_base_path().
Setup_image ==
    /\ pc = "Setup_image"
    /\ LET b == get_base_path
       IN  /\ CallBasePath(b)
           /\ IF b.thrown # "none"
              THEN /\ Throw(b.thrown)
                   /\ UNCHANGED <<example_image, created>>
              ELSE \E decoded \in BOOLEAN :
                     LET t == LoadTextureFromFile(decoded)
                     IN  /\ example_image' = [handle |-> t.handle,
                                              loaded |-> t.ok]
                         /\ created' = IF t.ok
                                       THEN Append(created, "texture")
                                       ELSE created
                         /\ pc' = "Setup_wav"
                         /\ UNCHANGED <<thrown, stderr>>
    /\ UNCHANGED <<envVars, exitCode, handleVars, alBufferHandles,
                   alSourceHandles, bufferData, wavSpec, format,
                   sourceBuffer, released, loopVars, sizeVars>>

\* alBufferData: an AL error, and no data, without a current context (no
\* buffer name was generated) or with a format that is no format.
alBufferData(generated, fmt) == generated /\ fmt # "AL_NONE"

\* alSourcei(source, AL_BUFFER, buffer): binds the buffer named, if the
\* source exists.
alSourcei(generated, buffer) == IF generated THEN buffer ELSE 0

\* Lines 442-464: the buffer and source names, then the WAV clip.
Setup_wav ==
    /\ pc = "Setup_wav"
    /\ alBufferHandles' = al_context
    /\ alSourceHandles' = al_context
    /\ LET b == get_base_path
           gen == IF al_context THEN <<"buffers", "sources">> ELSE <<>>
       IN  /\ CallBasePath(b)
           /\ created' = created \o gen
           /\ IF b.thrown # "none"
              THEN /\ Throw(b.thrown)
                   /\ UNCHANGED <<bufferData, wavSpec, format, sourceBuffer>>
              ELSE \E loaded \in BOOLEAN :
                     IF ~loaded
                     THEN /\ throw_error_message("Failed to load WAV file")
                          /\ UNCHANGED <<bufferData, wavSpec, format,
                                         sourceBuffer>>
                     ELSE \E channels \in Channels, sampleFormat \in SampleFormats,
                             floatExt \in (IF al_context THEN BOOLEAN ELSE {FALSE}) :
                            LET fmt == get_openal_format(channels, sampleFormat,
                                                         floatExt)
                            IN  /\ wavSpec' = [set |-> TRUE, channels |-> channels,
                                               format |-> sampleFormat,
                                               floatExt |-> floatExt]
                                /\ format' = fmt
                                /\ bufferData' = [bufferData EXCEPT
                                       ![1] = alBufferData(al_context, fmt)]
                                /\ sourceBuffer' = [sourceBuffer EXCEPT
                                       ![1] = alSourcei(al_context, 1)]
                                /\ pc' = "Setup_ogg"
                                /\ UNCHANGED <<thrown, stderr>>
    /\ UNCHANGED <<envVars, exitCode, handleVars, example_image, released,
                   loopVars, sizeVars>>

\* Lines 466-481: the OGG clip; Setup returns and so does the constructor.
Setup_ogg ==
    /\ pc = "Setup_ogg"
    /\ wavSpec' = NoSpec
    /\ format' = "none"
    /\ LET b == get_base_path
       IN  /\ baseCalls' = IF b.thrown = "none"
                           THEN Append(baseCalls, b.value)
                           ELSE baseCalls
           /\ IF b.thrown # "none"
              THEN /\ Throw(b.thrown)
                   /\ assets_folder' = assets_folder
                   /\ searches' = searches \o b.made
                   /\ UNCHANGED <<env, bufferData, sourceBuffer>>
              ELSE \E decoded \in BOOLEAN :
                     IF ~decoded
                     THEN /\ throw_error_message("Failed to load OGG file")
                          /\ assets_folder' = [init |-> TRUE, path |-> b.value]
                          /\ searches' = searches \o b.made
                          /\ UNCHANGED <<env, bufferData, sourceBuffer>>
                     ELSE \E channels \in Channels :
                            LET fmt == IF channels = 1
                                       THEN "AL_FORMAT_MONO16"
                                       ELSE "AL_FORMAT_STEREO16"
                            IN  /\ bufferData' = [bufferData EXCEPT
                                       ![2] = alBufferData(alBufferHandles, fmt)]
                                /\ sourceBuffer' = [sourceBuffer EXCEPT
                                       ![2] = alSourcei(alSourceHandles, 2)]
                                /\ assets_folder' = [init |-> TRUE,
                                                     path |-> b.value]
                                /\ env' = NoEnv
                                /\ searches' = <<>>
                                /\ pc' = "loop"
                                /\ UNCHANGED <<thrown, stderr>>
    /\ UNCHANGED <<build, exitCode, handleVars, example_image,
                   alBufferHandles, alSourceHandles, logVars, loopVars,
                   sizeVars>>

\* ----------------------------------------------------------- destruction

\* A Shutdown that deletes the texture whether or not the image loaded.
Shutdown_unguarded ==
    <<[res |-> "texture", live |-> example_image.handle # 0],
      [res |-> "sources", live |-> alSourceHandles],
      [res |-> "buffers", live |-> alBufferHandles]>>

\* Demo::Shutdown: the release calls it makes.  A call on names that were
\* never generated releases nothing (live is FALSE).
Shutdown ==
    (IF example_image.loaded
     THEN <<[res |-> "texture", live |-> example_image.handle # 0]>>
     ELSE <<>>)
    \o <<[res |-> "sources", live |-> alSourceHandles],
         [res |-> "buffers", live |-> alBufferHandles]>>

\* A destructor that closes the audio device before it destroys the
\* context opened on it.
Destructor_deviceFirst ==
    Shutdown
    \o <<[res |-> "al_device", live |-> al_device],
         [res |-> "al_context", live |-> al_context],
         [res |-> "ImGuiOpenGL3", live |-> TRUE],
         [res |-> "ImGuiSDL2", live |-> TRUE],
         [res |-> "ImGuiContext", live |-> TRUE],
         [res |-> "gl_context", live |-> gl_context],
         [res |-> "window", live |-> ptr_window],
         [res |-> "SDL", live |-> TRUE]>>

\* Application::~Application: Shutdown, then lines 186-194.
Destructor ==
    Shutdown
    \o <<[res |-> "al_context", live |-> al_context],
         [res |-> "al_device", live |-> al_device],
         [res |-> "ImGuiOpenGL3", live |-> TRUE],
         [res |-> "ImGuiSDL2", live |-> TRUE],
         [res |-> "ImGuiContext", live |-> TRUE],
         [res |-> "gl_context", live |-> gl_context],
         [res |-> "window", live |-> ptr_window],
         [res |-> "SDL", live |-> TRUE]>>

\* ------------------------------------------------------------- the frame

CloseEvent == [type |-> "SDL_WINDOWEVENT_CLOSE", data1 |-> 0, data2 |-> 0]
QuitEvent == [type |-> "SDL_QUIT", data1 |-> 0, data2 |-> 0]
ResizedEvent == [type |-> "SDL_WINDOWEVENT_RESIZED", data1 |-> 800,
                 data2 |-> 600]
OtherEvent == [type |-> "SDL_MOUSEMOTION", data1 |-> 0, data2 |-> 0]
Events == {CloseEvent, QuitEvent, ResizedEvent, OtherEvent}

\* The body of the SDL_PollEvent loop for one event, on [done, width,
\* height].
HandleEvent(event, st) ==
    IF event.type = "SDL_WINDOWEVENT_CLOSE" \/ event.type = "SDL_QUIT"
    THEN [st EXCEPT !.done = TRUE]
    ELSE IF event.type = "SDL_WINDOWEVENT_RESIZED"
    THEN [st EXCEPT !.width = event.data1, !.height = event.data2]
    ELSE st

\* updateWindowEvents: every pending event is polled, in order.
RECURSIVE updateWindowEvents(_, _)
updateWindowEvents(events, st) ==
    IF events = <<>> THEN st
    ELSE updateWindowEvents(Tail(events), HandleEvent(Head(events), st))

\* Application::Update: the events, then the frame is drawn and swapped.
Update ==
    LET st == updateWindowEvents(pending, [done |-> is_done,
                   width |-> gWindowWidth, height |-> gWindowHeight])
    IN  /\ is_done' = st.done
        /\ gWindowWidth' = st.width
        /\ gWindowHeight' = st.height
        /\ pending' = <<>>
        /\ frames' = IF frames < MaxFrames THEN frames + 1 ELSE frames

\* The window system queues an event.
PostEvent ==
    /\ pc = "loop"
    /\ Len(pending) < MaxEvents
    /\ \E event \in Events : pending' = Append(pending, event)
    /\ UNCHANGED <<envVars, mainVars, handleVars, demoVars, logVars,
                   is_done, frames, sizeVars, assetVars>>

\* Lines 128-131, one iteration: IsDone() is false and Update runs.
MainLoop_Update ==
    /\ pc = "loop"
    /\ build = "windows"
    /\ ~is_done
    /\ Update
    /\ UNCHANGED <<envVars, mainVars, handleVars, demoVars, logVars,
                   gNeedResize, windowSize, resizeCalls, forceResizes,
                   assetVars>>

\* Lines 128 and 139: IsDone() is true, main returns 0 and application is
\* destroyed.
MainLoop_Return ==
    /\ pc = "loop"
    /\ build = "windows"
    /\ is_done
    /\ released' = released \o Destructor
    /\ exitCode' = "0"
    /\ pc' = "exit"
    /\ UNCHANGED <<envVars, thrown, stderr, handleVars, demoVars, created,
                   loopVars, sizeVars, assetVars>>

\* ---------------------------------------------------------- the web build

MinWindowSize == 400

\* The sizes the page asks for.
SizeRequests == {<<300, 300>>, <<800, 300>>, <<640, 480>>}

\* A setWindowSize that records the requested size as it is.
setWindowSize_unclamped ==
    /\ build = "emscripten"
    /\ pc = "loop"
    /\ resizeCalls < MaxResizeCalls
    /\ resizeCalls' = resizeCalls + 1
    /\ \E request \in SizeRequests :
         IF request[1] # gWindowWidth \/ request[2] # gWindowHeight
         THEN /\ gNeedResize' = TRUE
              /\ gWindowWidth' = request[1]
              /\ gWindowHeight' = request[2]
         ELSE UNCHANGED <<gNeedResize, gWindowWidth, gWindowHeight>>
    /\ UNCHANGED <<envVars, mainVars, handleVars, demoVars, logVars,
                   loopVars, windowSize, forceResizes, assetVars>>

\* setWindowSize (lines 109-118).
setWindowSize ==
    /\ build = "emscripten"
    /\ pc = "loop"
    /\ resizeCalls < MaxResizeCalls
    /\ resizeCalls' = resizeCalls + 1
    /\ \E request \in SizeRequests :
         LET sizeX == IF request[1] < MinWindowSize THEN MinWindowSize
                      ELSE request[1]
             sizeY == IF request[2] < MinWindowSize THEN MinWindowSize
                      ELSE request[2]
         IN  IF sizeX # gWindowWidth \/ sizeY # gWindowHeight
             THEN /\ gNeedResize' = TRUE
                  /\ gWindowWidth' = sizeX
                  /\ gWindowHeight' = sizeY
             ELSE UNCHANGED <<gNeedResize, gWindowWidth, gWindowHeight>>
    /\ UNCHANGED <<envVars, mainVars, handleVars, demoVars, logVars,
                   loopVars, windowSize, forceResizes, assetVars>>

\* main_loop (lines 93-103), one tick of the browser's loop.  Cancelling
\* the loop ends the program's activity: emscripten_set_main_loop_arg was
\* called with simulate_infinite_loop, so main never continues past it and
\* application is never destroyed.
main_loop ==
    /\ build = "emscripten"
    /\ pc = "loop"
    /\ IF gNeedResize
       THEN /\ forceResizes' = Append(forceResizes,
                                      <<gWindowWidth, gWindowHeight>>)
            /\ windowSize' = <<gWindowWidth, gWindowHeight>>
       ELSE UNCHANGED <<forceResizes, windowSize>>
    /\ gNeedResize' = FALSE
    /\ Update
    /\ pc' = IF is_done' THEN "cancelled" ELSE "loop"
    /\ UNCHANGED <<envVars, thrown, stderr, exitCode, handleVars, demoVars,
                   logVars, resizeCalls, assetVars>>

\* ----------------------------------------------------------- environment

\* Another process creates or removes an "assets" directory between two
\* of Setup's get_base_path calls.
FsChange ==
    /\ pc \in {"Setup_wav", "Setup_ogg"}
    /\ env.changes < MaxFsChanges
    /\ \E d \in Dirs :
         env' = [env EXCEPT
                   !.changes = @ + 1,
                   !.assetsAt = IF d \in @ THEN @ \ {d} ELSE @ \cup {d}]
    /\ UNCHANGED <<build, mainVars, handleVars, demoVars, logVars, loopVars,
                   sizeVars, assetVars>>

\* -------------------------------------------------------------------- Spec

Next ==
    \/ Ctor_setupSDLWindow
    \/ Ctor_setupOpenGL
    \/ Ctor_setupImGui
    \/ Ctor_openAL
    \/ Setup_image
    \/ Setup_wav
    \/ Setup_ogg
    \/ Catch
    \/ PostEvent
    \/ MainLoop_Update
    \/ MainLoop_Return
    \/ setWindowSize
    \/ main_loop
    \/ FsChange

Spec == Init /\ [][Next]_vars

\* ================================================================ claims

\* d and its ancestors up to the root, nearest first.
RECURSIVE AncestorChain(_)
AncestorChain(d) ==
    IF d = <<>> THEN <<d>> ELSE <<d>> \o AncestorChain(Front(d))

Ancestors(d) == {AncestorChain(d)[i] : i \in 1..Len(AncestorChain(d))}

\* Whether the start of search s, or an ancestor of it up to the root, has a
\* child directory "assets" in the filesystem the search ran in.
HasAssetsAncestor(s) == \E a \in Ancestors(s.start) : a \in s.assetsAt

\* The nearest such directory: the one fewest parent steps from the start.
NearestWithAssets(s) ==
    LET chain == AncestorChain(s.start)
        i == CHOOSE k \in 1..Len(chain) :
                 /\ chain[k] \in s.assetsAt
                 /\ \A j \in 1..(k - 1) : chain[j] \notin s.assetsAt
    IN  chain[i]

Searches == {searches[k] : k \in 1..Len(searches)}

\* C1: whenever the starting directory or one of its ancestors, the root
\* included, has a child "assets", try_get_asset_path returns a path, and
\* the path is the "assets" directory of the nearest of them.
C1_NearestAssetsFound ==
    \A s \in Searches :
        HasAssetsAncestor(s) =>
            /\ s.result.kind = "found"
            /\ Normalize(s.result.path)
                   = Append(NearestWithAssets(s), "assets")

\* The depth of the directory p names shrinks from each iteration to the
\* next.
DepthDecreases(visited) ==
    \A i \in 1..(Len(visited) - 1) :
        Len(Normalize(visited[i + 1])) < Len(Normalize(visited[i]))

\* C2: when neither the starting directory nor any ancestor of it has a
\* child "assets", try_get_asset_path returns empty, having looked at
\* directories of strictly decreasing depth.
C2_EmptyWhenNoAssets ==
    \A s \in Searches :
        ~HasAssetsAncestor(s) =>
            /\ s.result.kind = "empty"
            /\ DepthDecreases(s.result.visited)

Reverse(s) == [i \in 1..Len(s) |-> s[Len(s) + 1 - i]]

IsLive(r) == r.live
ResOf(calls) == [i \in 1..Len(calls) |-> calls[i].res]

\* The resources actually destroyed, in order.
Destroyed == ResOf(SelectSeq(released, IsLive))

Count(seq, x) == Cardinality({i \in 1..Len(seq) : seq[i] = x})

\* The SDL library itself is no stage of the initialization sequence.
IsSubsystem(res) == res # "SDL"
NotTexture(res) == res # "texture"

\* C3: when the constructor fails, what was created before the failure has
\* been released when the process ends, in reverse order of creation, each
\* once, and nothing else.
C3_FailureReleasesCreated ==
    (pc = "exit" /\ exitCode = "-1") =>
        SelectSeq(Destroyed, IsSubsystem)
            = Reverse(SelectSeq(created, IsSubsystem))

\* C4 as stated: after a startup that succeeded, the destructor destroys
\* what was created in exactly the reverse of the order of creation.
C4_ExactReverse ==
    exitCode = "0" => Destroyed = Reverse(created)

\* C4 as amended: after a startup that succeeded, the destructor destroys
\* every resource created, each once; the texture first, and all others in
\* exactly the reverse of the order of their creation.
C4_ReverseExceptTexture ==
    exitCode = "0" =>
        /\ \A i \in 1..Len(created) : Count(Destroyed, created[i]) = 1
        /\ Destroyed = (IF Count(created, "texture") > 0
                        THEN <<"texture">> ELSE <<>>)
                       \o Reverse(SelectSeq(created, NotTexture))

\* The destructor has run after a startup in which every resource was
\* created.
C4_Witness ==
    /\ exitCode = "0"
    /\ example_image.loaded
    /\ al_device /\ al_context
    /\ alBufferHandles /\ alSourceHandles
    /\ Count(Destroyed, "texture") = 1
    /\ Count(Destroyed, "window") = 1

Category(res) ==
    IF res \in {"texture", "sources", "buffers"} THEN "assets"
    ELSE IF res \in {"ImGuiOpenGL3", "ImGuiSDL2", "ImGuiContext"} THEN "ui"
    ELSE res

\* A sequence without its immediate repetitions.
RECURSIVE Collapse(_)
Collapse(seq) ==
    IF Len(seq) <= 1 THEN seq
    ELSE IF seq[1] = seq[2] THEN Collapse(Tail(seq))
    ELSE <<seq[1]>> \o Collapse(Tail(seq))

CategoryOf(calls) == [i \in 1..Len(calls) |-> Category(calls[i].res)]

\* C5: when the process has ended, however far startup got, the release
\* calls were made, in the order assets, UI context, audio context, audio
\* device, graphics context, window.
C5_ReleaseSequence ==
    pc \in {"exit", "cancelled"} =>
        Collapse(SelectSeq(CategoryOf(released), IsSubsystem))
            = <<"assets", "ui", "al_context", "al_device", "gl_context",
                "window">>

\* C6: every call of get_base_path returns the path the first call
\* returned, and only the first call searches, whatever became of the
\* "assets" directories in between.
C6_Memoized ==
    /\ \A i \in 1..Len(baseCalls) : baseCalls[i] = baseCalls[1]
    /\ \A s \in Searches : s.call = 1
    /\ assets_folder.init => (baseCalls # <<>>
                              /\ assets_folder.path = baseCalls[1])

\* A second call has returned, after a change of the filesystem that would
\* make the initializer give something else.
C6_Witness ==
    /\ Len(baseCalls) >= 2
    /\ env.tracked
    /\ env.changes > 0
    /\ \/ InitAssetsFolder.thrown # "none"
       \/ InitAssetsFolder.value # baseCalls[1]

\* C7: the initializer searches from the working directory first and
\* returns what that finds; it searches from the executable's directory
\* only when the first search returned empty, and returns what that finds;
\* it fails with "asset root not found" exactly when both returned empty.
C7_SearchOrder ==
    /\ searches # <<>> =>
         /\ Len(searches) <= 2
         /\ searches[1].start = env.cwd
         /\ searches[1].result.kind = "found" =>
              /\ Len(searches) = 1
              /\ baseCalls # <<>>
              /\ baseCalls[1] = searches[1].result.path
         /\ (Len(searches) = 2) <=> (searches[1].result.kind = "empty")
         /\ Len(searches) = 2 =>
              /\ searches[2].start = env.exeDir
              /\ searches[2].result.kind = "found" =>
                   /\ baseCalls # <<>>
                   /\ baseCalls[1] = searches[2].result.path
    /\ (thrown = "AssetRootNotFound") <=>
         /\ Len(searches) = 2
         /\ searches[1].result.kind = "empty"
         /\ searches[2].result.kind = "empty"

\* The first search returned empty and the second found the folder.
C7_Witness ==
    /\ Len(searches) = 2
    /\ searches[1].result.kind = "empty"
    /\ searches[2].result.kind = "found"
    /\ baseCalls # <<>>
    /\ baseCalls[1] = searches[2].result.path
    /\ searches[1].start # searches[2].start

\* C8: an image that failed to load has loaded = FALSE and no texture, and
\* no texture is ever released for it; an image that loaded has
\* loaded = TRUE and a texture, which is released once when Shutdown has
\* run and never more than once.
C8_ImageLifecycle ==
    /\ ~example_image.loaded =>
         /\ example_image.handle = 0
         /\ Count(created, "texture") = 0
         /\ Count(ResOf(released), "texture") = 0
    /\ example_image.loaded =>
         /\ example_image.handle # 0
         /\ Count(created, "texture") = 1
    /\ Count(ResOf(released), "texture") <= 1
    /\ (exitCode = "0" /\ example_image.loaded) =>
         Count(Destroyed, "texture") = 1

\* Shutdown has run for an image that loaded.
C8_Witness ==
    /\ exitCode = "0"
    /\ example_image.loaded
    /\ Count(Destroyed, "texture") = 1

StandardFormat(spec) ==
    /\ spec.channels \in {1, 2}
    /\ spec.format \in {"AUDIO_U8", "AUDIO_S16SYS"}

\* C9: with the audio context live, when the WAV clip's channel count and
\* sample format are none of the four standard combinations and the float
\* extension is absent, loading fails with an unsupported-format error:
\* Setup goes no further, no data reaches the buffer and no buffer is bound
\* to the source.
C9_UnsupportedFormatFails ==
    (al_context /\ wavSpec.set /\ ~StandardFormat(wavSpec)
         /\ ~wavSpec.floatExt) =>
        /\ pc \in {"catch", "exit"}
        /\ thrown # "none"
        /\ ~bufferData[1]
        /\ sourceBuffer[1] = 0

\* C10: the format computed for the WAV clip is mono-8, mono-16, stereo-8
\* or stereo-16 for the four standard combinations, whatever the extension
\* flag; the mono or stereo float format for 32-bit float samples with one
\* or two channels when the extension is present; and AL_NONE for
\* everything else.
C10_FormatMapping ==
    wavSpec.set =>
        LET c == wavSpec.channels
            f == wavSpec.format
        IN  /\ (c = 1 /\ f = "AUDIO_U8") => format = "AL_FORMAT_MONO8"
            /\ (c = 1 /\ f = "AUDIO_S16SYS") => format = "AL_FORMAT_MONO16"
            /\ (c = 2 /\ f = "AUDIO_U8") => format = "AL_FORMAT_STEREO8"
            /\ (c = 2 /\ f = "AUDIO_S16SYS") => format = "AL_FORMAT_STEREO16"
            /\ (c = 1 /\ f = "AUDIO_F32SYS" /\ wavSpec.floatExt)
                   => format = "AL_FORMAT_MONO_FLOAT32"
            /\ (c = 2 /\ f = "AUDIO_F32SYS" /\ wavSpec.floatExt)
                   => format = "AL_FORMAT_STEREO_FLOAT32"
            /\ (f = "AUDIO_F32SYS" /\ ~wavSpec.floatExt) => format = "AL_NONE"
            /\ (c \notin {1, 2} \/ f \notin {"AUDIO_U8", "AUDIO_S16SYS",
                                             "AUDIO_F32SYS"})
                   => format = "AL_NONE"

\* A stereo float clip was loaded with the extension present.
C10_Witness ==
    /\ wavSpec.set
    /\ wavSpec.channels = 2
    /\ wavSpec.format = "AUDIO_F32SYS"
    /\ wavSpec.floatExt
    /\ format = "AL_FORMAT_STEREO_FLOAT32"

\* What the exceptions that leave the constructor say.
InitializationFailures ==
    {"App title shouldn't be empty", "Failed to init SDK error",
     "Failed to create window", "Failed to create opengl context",
     "Unable to initialize GLEW"}
AssetRootFailures == {"AssetRootNotFound", "filesystem_error"}
AudioDecodeFailures == {"Failed to load WAV file", "Failed to load OGG file"}

\* Startup came out of Setup's image step without an exception.
PastImage ==
    \/ pc \in {"Setup_wav", "Setup_ogg", "loop", "cancelled"}
    \/ thrown \in AudioDecodeFailures
    \/ exitCode = "0"

\* C11 as stated: no asset's decode failure is fatal, so the exception
\* that ends startup is never the failure to load the WAV or the OGG clip.
C11_DecodeFailureNotFatal == thrown \notin AudioDecodeFailures

\* C11, amended: the image's decode failure is not fatal (startup goes on
\* with the image not loaded and no texture), while a WAV or OGG clip that
\* does not load aborts startup with a message and a non-zero exit; nothing
\* but an initialization failure, an asset root failure or such an audio
\* failure is ever thrown.
C11_OnlyImageFailureSurvives ==
    /\ thrown \in {"none"} \cup InitializationFailures
                  \cup AssetRootFailures \cup AudioDecodeFailures
    /\ (PastImage /\ ~example_image.loaded) =>
          /\ thrown \notin InitializationFailures \cup AssetRootFailures
          /\ Count(created, "texture") = 0
    /\ thrown \in AudioDecodeFailures =>
          /\ pc \in {"catch", "exit"}
          /\ frames = 0
          /\ exitCode # "0"
          /\ \E i \in 1..Len(stderr) : stderr[i] = thrown
    /\ pc \in {"loop", "cancelled"} =>
          /\ thrown = "none"
          /\ Len(baseCalls) = 3

\* The frame loop runs with the image not loaded.
C11_Witness ==
    /\ pc = "loop"
    /\ frames > 0
    /\ ~example_image.loaded
    /\ thrown = "none"

\* The program has ended.
Exited == pc = "exit"

\* C12: a startup that fails (initialization, asset root, fatal asset
\* failure) never enters the frame loop, and once the program has ended the
\* failure's message has been printed and the exit status is non-zero; the
\* exit status is 0 only after a startup that completed (all three assets
\* steps done, nothing thrown) and a loop that ran and ended on the done
\* flag.
C12_FatalStartupFailure ==
    /\ thrown # "none" =>
          /\ frames = 0
          /\ pc \in {"catch", "exit"}
          /\ exitCode # "0"
          /\ is_done = FALSE
    /\ (Exited /\ thrown # "none") =>
          /\ exitCode = "-1"
          /\ stderr # <<>>
          /\ stderr[Len(stderr)] = thrown
    /\ exitCode = "0" =>
          /\ Exited
          /\ thrown = "none"
          /\ stderr = <<>>
          /\ Len(baseCalls) = 3
          /\ frames > 0
          /\ is_done

\* Startup ended for want of an asset root: printed, and exit status -1.
C12_Witness ==
    /\ Exited
    /\ thrown = "AssetRootNotFound"
    /\ stderr = <<"AssetRootNotFound">>
    /\ exitCode = "-1"
    /\ frames = 0

\* Startup has gone past the creation of the audio device and context.
PastAudio ==
    \/ PastImage
    \/ pc = "Setup_image"
    \/ thrown \in AssetRootFailures

\* C13: a subsystem whose creation failed aborts initialization, so startup
\* is past a stage only if that stage's handle exists; in particular asset
\* loading and the frame loop are reached only with an audio device and an
\* audio context.
C13_FailedStageAborts ==
    /\ pc \in {"setupOpenGL", "setupImGui", "alcOpenDevice"} => ptr_window
    /\ pc \in {"setupImGui", "alcOpenDevice"} => gl_context
    /\ PastAudio => /\ ptr_window
                    /\ gl_context
                    /\ al_device
                    /\ al_context

\* The directories a search looked in.
Checked(s) == {Normalize(s.result.visited[i]) : i \in 1..Len(s.result.visited)}

\* C14: a search that returned empty has looked in every directory from
\* its starting directory up to and including the root.
C14_EmptyMeansAllChecked ==
    \A s \in Searches :
        s.result.kind = "empty" => Ancestors(s.start) \subseteq Checked(s)

\* The filesystem is as it was when the asset root was resolved.
FsAsResolved == env.tracked /\ env.changes = 0

\* C15 as stated: the resolved value is a directory that has a child
\* "assets" directly under it.
C15_RootHasAssetsChild ==
    (assets_folder.init /\ FsAsResolved) =>
        /\ is_directory(assets_folder.path, env.assetsAt)
        /\ is_directory(assets_folder.path \o <<"assets">>, env.assetsAt)

\* C15, amended: the resolved value is the "assets" directory itself (its
\* last component is "assets", it is a directory, and its parent is on the
\* ancestor chain of the working or the executable's directory), and every
\* value get_base_path has returned is that value.
C15_RootIsAssetsFolder ==
    assets_folder.init =>
        /\ assets_folder.path # <<>>
        /\ assets_folder.path[Len(assets_folder.path)] = "assets"
        /\ baseCalls # <<>>
        /\ \A i \in 1..Len(baseCalls) : baseCalls[i] = assets_folder.path
        /\ FsAsResolved =>
              /\ is_directory(assets_folder.path, env.assetsAt)
              /\ Front(Normalize(assets_folder.path))
                    \in Ancestors(env.cwd) \cup Ancestors(env.exeDir)

\* The asset root is resolved, found from a directory below the one that
\* holds "assets", and the frame loop runs with it.
C15_Witness ==
    /\ pc = "loop"
    /\ frames > 0
    /\ assets_folder.init
    /\ Len(assets_folder.path) > 1
    /\ Len(baseCalls) = 3

\* The order in which a startup creates its resources.
StartupOrder ==
    <<"SDL", "window", "gl_context", "ImGuiContext", "ImGuiSDL2",
      "ImGuiOpenGL3", "al_device", "al_context", "texture", "buffers",
      "sources">>

Position(res) == CHOOSE i \in 1..Len(StartupOrder) : StartupOrder[i] = res

Has(res) == Count(created, res) > 0

\* The asset root has been looked for.
ResolutionStarted ==
    \/ searches # <<>>
    \/ assets_folder.init
    \/ thrown \in AssetRootFailures

\* C16 as stated: the asset root is resolved before any subsystem is
\* acquired, so the failure to find it occurs while nothing has been
\* created.
C16_RootNotFoundBeforeSubsystems ==
    thrown = "AssetRootNotFound" => created = <<>>

\* C16, amended: resources are created in the order window, graphics
\* context, UI context, audio device, audio context, then the assets, each
\* at most once; the window, the graphics context and the UI context exist
\* before anything after them is created; and the asset root is looked
\* for only after the subsystems were set up, so the failure to find it
\* occurs with the window, the graphics context and the UI context created
\* and no asset loaded.
C16_SubsystemsThenRoot ==
    /\ \A i, j \in 1..Len(created) :
          i < j => Position(created[i]) < Position(created[j])
    /\ Has("gl_context") => Has("window")
    /\ Has("ImGuiContext") => Has("gl_context")
    /\ Has("al_device") => Has("ImGuiOpenGL3")
    /\ Has("al_context") => Has("al_device")
    /\ Has("texture") \/ Has("buffers") =>
          /\ Has("ImGuiOpenGL3")
          /\ assets_folder.init
    /\ ResolutionStarted =>
          /\ Has("window")
          /\ Has("gl_context")
          /\ Has("ImGuiOpenGL3")
          /\ pc \notin {"setupSDLWindow", "setupOpenGL", "setupImGui",
                        "alcOpenDevice"}
    /\ thrown \in AssetRootFailures =>
          /\ ~Has("texture")
          /\ ~Has("buffers")
          /\ baseCalls = <<>>

\* The asset root was not found, with every subsystem already created.
C16_Witness ==
    /\ thrown = "AssetRootNotFound"
    /\ created = SubSeq(StartupOrder, 1, 8)

\* The frame loop has been left without an exception.
LoopEnded == pc \in {"exit", "cancelled"} /\ thrown = "none"

\* C17: the done flag is false until the loop runs, the loop is left only
\* with the flag set, nothing is released while the loop runs, and once the
\* loop has been left on an exit event shutdown has run, destroying each
\* created resource exactly once.
C17_ExitThenShutdown ==
    /\ pc \notin {"loop", "exit", "cancelled"} => ~is_done
    /\ LoopEnded => is_done
    /\ pc = "loop" => released = <<>>
    /\ LoopEnded =>
          /\ released # <<>>
          /\ \A i \in 1..Len(created) : Count(Destroyed, created[i]) = 1

\* A requested size as setWindowSize clamps it.
Clamped(request) ==
    <<IF request[1] < MinWindowSize THEN MinWindowSize ELSE request[1],
      IF request[2] < MinWindowSize THEN MinWindowSize ELSE request[2]>>

Recorded == <<gWindowWidth, gWindowHeight>>

\* A step of setWindowSize, and a step of main_loop.
IsSetWindowSizeStep == resizeCalls' = resizeCalls + 1
IsTick ==
    /\ build = "emscripten"
    /\ pc = "loop"
    /\ resizeCalls' = resizeCalls
    /\ pending' = <<>>

\* What the web build's resize handshake keeps true in every state.
ResizeInvariant ==
    /\ \A i \in 1..Len(forceResizes) :
          /\ forceResizes[i][1] >= MinWindowSize
          /\ forceResizes[i][2] >= MinWindowSize
    /\ Len(forceResizes) <= resizeCalls
    /\ gNeedResize =>
          /\ Len(forceResizes) < resizeCalls
          /\ \E request \in SizeRequests : Recorded = Clamped(request)
    /\ forceResizes # <<>> =>
          windowSize = forceResizes[Len(forceResizes)]
    /\ build # "emscripten" => (~gNeedResize /\ forceResizes = <<>>)

\* What each step of the handshake does.
ResizeStep ==
    /\ IsSetWindowSizeStep =>
          /\ UNCHANGED <<forceResizes, windowSize>>
          /\ \/ /\ UNCHANGED <<gNeedResize, gWindowWidth, gWindowHeight>>
                /\ \E request \in SizeRequests : Clamped(request) = Recorded
             \/ /\ gNeedResize'
                /\ Recorded' # Recorded
                /\ \E request \in SizeRequests : Recorded' = Clamped(request)
    /\ IsTick =>
          /\ ~gNeedResize'
          /\ IF gNeedResize
             THEN /\ forceResizes' = Append(forceResizes, Recorded)
                  /\ windowSize' = Recorded
             ELSE UNCHANGED <<forceResizes, windowSize>>
    /\ (pc = "loop" /\ ~IsTick) => UNCHANGED <<forceResizes, windowSize>>
    /\ (gNeedResize /\ ~gNeedResize') => IsTick
    /\ (~gNeedResize /\ gNeedResize') => IsSetWindowSizeStep

\* C18: on the web build setWindowSize clamps each dimension to at least
\* 400 and records the size and sets the flag only if the clamped size
\* differs from the recorded one, changing nothing otherwise; a tick of
\* main_loop calls ForceResize with the recorded size exactly when the
\* flag is set and leaves the flag clear; so every size applied is a
\* clamped one, the last one recorded, and there are never more
\* applications than requests.
C18_ResizeHandshake == []ResizeInvariant /\ [][ResizeStep]_vars

\* Two calls of setWindowSize before the first tick, away from 640x480
\* and back: the tick applied the last recorded size, once.
C18_Witness ==
    /\ build = "emscripten"
    /\ frames = 1
    /\ resizeCalls = 2
    /\ forceResizes = <<<<640, 480>>>>
    /\ windowSize = <<640, 480>>
    /\ ~gNeedResize

====
